---------------------------- MODULE Spec2Model ----------------------------
(***************************************************************************)
(* A model of the trust-bootstrap script (tests/install_proxy_cas.py) and  *)
(* of the capture driver (scripts/capture.py) of Proxy_JA4_Proj.           *)
(*                                                                         *)
(* Conventions.                                                            *)
(*  - A Python bool result is "True" / "False"; an exception that leaves   *)
(*    the function is "raise"; "none" is "no result yet".                  *)
(*  - A file is Absent or a sequence of tokens (its bytes, in blocks).     *)
(*  - The clock counts ticks, TicksPerSec of them to a second.  Time       *)
(*    passes only where the code sleeps (by exactly the requested time)    *)
(*    and, for the capture driver, between two commands.                   *)
(*  - log() is taken to succeed: the log files are not modelled.           *)
(***************************************************************************)
EXTENDS Integers, Sequences, FiniteSets, TLC

---------------------------------------------------------------------------
(* Bounds of the model *)

TicksPerSec == 2
MaxWaitArg == 7
MaxLen == 3
MaxRuns == 2

(* Constants of the program *)

PollInterval == 2
DefaultMaxWait == 60

---------------------------------------------------------------------------
(* Files *)

\* Every block is a pair <<kind, serial>>; Absent is the one value that is
\* no file content.
Absent == <<<<"absent", 0>>>>
WS == <<"ws", 0>>
JUNK == <<"junk", 0>>
BEGIN == <<"BEGIN", 0>>
END == <<"END", 0>>

\* Key pair 0 is one made before the model starts; each run may make one more.
Serials == 0..MaxRuns

\* The blocks a file is made of: white space, bytes that are no PEM, the
\* BEGIN CERTIFICATE line, a DER body (named by the key pair it certifies),
\* the END CERTIFICATE line, and a whole private key block.
PemBody(s) == <<"der", s>>
KeyBlock(s) == <<"key", s>>
Tokens == {WS, JUNK, BEGIN, END} \cup {PemBody(s) : s \in Serials}

RECURSIVE SeqsUpTo(_, _)
SeqsUpTo(S, n) ==
    IF n = 0 THEN {<<>>}
    ELSE LET shorter == SeqsUpTo(S, n - 1)
         IN  shorter \cup {Append(q, t) : q \in {x \in shorter : Len(x) = n - 1}, t \in S}

\* What generate_ca writes: cert.public_bytes(PEM) and key.private_bytes(PEM).
CertPem(s) == <<BEGIN, PemBody(s), END>>
KeyPem(s) == <<KeyBlock(s)>>

exists(f) == f # Absent

\* bytes.strip(): leading and trailing white space removed.
RECURSIVE lstrip(_)
lstrip(d) == IF d # <<>> /\ Head(d) = WS THEN lstrip(Tail(d)) ELSE d

RECURSIVE rstrip(_)
rstrip(d) ==
    IF d # <<>> /\ d[Len(d)] = WS THEN rstrip(SubSeq(d, 1, Len(d) - 1)) ELSE d

strip(d) == rstrip(lstrip(d))

\* x509.load_pem_x509_certificate: the data holds a certificate block, BEGIN
\* line, DER body, END line in a row; anything else raises ValueError.
HasCertBlock(d) ==
    \E i \in 1..Len(d) :
        /\ i + 2 <= Len(d)
        /\ d[i] = BEGIN
        /\ d[i + 1] \in {PemBody(s) : s \in Serials}
        /\ d[i + 2] = END

load_pem_x509_certificate(d) == IF HasCertBlock(d) THEN "ok" ELSE "raise"

---------------------------------------------------------------------------
VARIABLES
    clock,      \* time.time(), in ticks
    sibState,   \* the sibling proxies' CA files: pending, present or removed
    w_pc,       \* wait_for_file: idle, loop, done
    w_path,     \* its file_path
    w_max,      \* its max_wait, in seconds
    w_start,    \* its start_time
    w_sleeps,   \* the time.sleep(2) calls of the current call
    w_ret,      \* its result
    w_end,      \* the clock when it returned
    w_missed,   \* max_wait went by with the file never there
    v_pc,       \* is_valid_pem_cert: idle, call, done
    v_file,     \* the file at cert_path
    v_readable, \* whether open(cert_path, "rb") succeeds
    v_ret,      \* its result
    caKey,      \* the file CA_KEY
    caCert,     \* the file CA_CERT
    ensured,    \* whether the directories and squid_no_ssl.conf all exist
    trustDir,   \* whether /usr/local/share/ca-certificates exists
    trustStore, \* the files in it, by name
    isLinux,    \* platform.system() == "Linux"
    nextSerial, \* the key pairs made so far
    g_pc,       \* generate_ca of each process
    g_serial,   \* the key pair it made
    g_key0,     \* CA_KEY and CA_CERT when the boot process called generate_ca
    g_cert0,
    b_pc,       \* the bootstrap script's position
    b_auto,     \* sys.argv[1] == "--auto"
    b_valid,    \* what Step 1.5 found: missing, invalid, valid
    b_exit,     \* the exit code of a run that ended
    ca_installed,
    a_idx,      \* automatic mode: the sibling being handled
    a_waited,   \* the siblings this run has called wait_for_file for
    i_ret,      \* install_ca: the last call's result
    i_src,      \* whether its source existed
    refreshes,  \* update-ca-certificates invocations of this run
    okSinceRefresh, \* an install_ca returned True since the last of them
    runs,       \* the runs of the script so far
    container,  \* whether the container capture_poc is running
    tcpdumpInstalled, \* whether it has tcpdump
    agentProcs, \* the tcpdump processes in it, as <<file name, launch>>
    agentFiles, \* its /captures: file name :> "empty" or "data"
    capDir,     \* whether ./captures exists
    localFiles, \* the capture files in it: file name :> "empty" or "data"
    pointer,    \* ./captures/.current_capture: NoFile or the name in it
    c_pc,       \* the capture driver's position
    c_cmd,      \* the command it runs: none, start, stop
    c_nested,   \* stop_tcpdump runs inside start_tcpdump
    c_out,      \* start_tcpdump's pcap_name as given
    c_name,     \* pcap_name once resolved
    c_cur,      \* stop_tcpdump's current_capture
    c_running,  \* what stop_tcpdump's check_container_running gave
    c_ret,      \* what the command returned
    c_session,  \* the name the last start launched, if it returned True
    c_retrieved, \* the name the current stop handed to copy_pcap
    cmds,       \* the commands run so far
    flips,      \* the times the container went down or up
    m_pc,       \* the test matrix's position
    m_p,        \* the profile of PROXIES being tested
    m_h,        \* the host of TEST_HOSTS being tested
    m_health,   \* what the health check of this profile met
    results,    \* test_proxy's results
    all_results, \* run_all_tests' all_results
    m_report,   \* comprehensive_test_results.json: none, or the one written
    m_exit      \* the exit status of the run

waitVars == <<w_pc, w_path, w_max, w_start, w_sleeps, w_ret, w_end, w_missed>>
validVars == <<v_pc, v_file, v_readable, v_ret>>
fsVars == <<caKey, caCert, ensured, trustDir, trustStore, isLinux>>
genVars == <<nextSerial, g_pc, g_serial, g_key0, g_cert0>>
bootVars == <<b_pc, b_auto, b_valid, b_exit, ca_installed, a_idx, a_waited,
              i_ret, i_src, refreshes, okSinceRefresh, runs>>
agentVars == <<container, tcpdumpInstalled, agentProcs, agentFiles, flips>>
localVars == <<capDir, localFiles, pointer>>
drvVars == <<c_pc, c_cmd, c_nested, c_out, c_name, c_cur, c_running, c_ret,
             c_session, c_retrieved, cmds>>
capVars == <<agentVars, localVars, drvVars>>
matVars == <<m_pc, m_p, m_h, m_health, results, all_results, m_report,
             m_exit>>
vars == <<clock, sibState, waitVars, validVars, fsVars, genVars, bootVars,
          capVars, matVars>>

SiblingPaths == {"/mitm_ca/mitmproxy-ca-cert.pem", "/shared_ca_cert.pem"}

SibCert(p) == CertPem(0)
SibFile(p) == IF sibState[p] = "present" THEN SibCert(p) ELSE Absent

Sec(n) == n * TicksPerSec

---------------------------------------------------------------------------
(* is_valid_pem_cert *)

\* The same without the try: a parse error leaves the function.
is_valid_pem_cert_no_try(f, readable) ==
    IF ~exists(f) THEN "False"
    ELSE IF ~readable THEN "raise"
    ELSE IF strip(f) = <<>> THEN "False"
    ELSE IF load_pem_x509_certificate(f) = "raise" THEN "raise"
    ELSE "True"

is_valid_pem_cert(f, readable) ==
    IF ~exists(f) THEN "False"
    ELSE IF ~readable THEN "False"                   \* open raises: except
    ELSE IF strip(f) = <<>> THEN "False"
    ELSE IF load_pem_x509_certificate(f) = "raise" THEN "False"   \* except
    ELSE "True"

ValidIdle ==
    /\ v_pc = "idle"
    /\ v_file = Absent
    /\ v_readable = TRUE
    /\ v_ret = "none"

ValidInit ==
    /\ v_pc = "call"
    /\ v_file \in {Absent} \cup SeqsUpTo(Tokens, MaxLen)
    /\ v_readable \in BOOLEAN
    /\ v_ret = "none"

ValidCall ==
    /\ v_pc = "call"
    /\ v_ret' = is_valid_pem_cert(v_file, v_readable)
    /\ v_pc' = "done"
    /\ UNCHANGED <<v_file, v_readable>>
    /\ UNCHANGED <<clock, sibState, waitVars, fsVars, genVars, bootVars, capVars,
                   matVars>>

---------------------------------------------------------------------------
(* The sibling proxies: each writes its CA file at some time of its own,
   and a restarted sibling may remove it. *)

EnvCreate(p) ==
    /\ sibState[p] = "pending"
    /\ sibState' = [sibState EXCEPT ![p] = "present"]
    /\ UNCHANGED <<clock, waitVars, validVars, capVars, matVars, fsVars, genVars, bootVars>>

EnvRemove(p) ==
    /\ sibState[p] = "present"
    /\ sibState' = [sibState EXCEPT ![p] = "removed"]
    /\ UNCHANGED <<clock, waitVars, validVars, capVars, matVars, fsVars, genVars, bootVars>>

---------------------------------------------------------------------------
(* wait_for_file *)

\* time.sleep(2)
SleepTicks == Sec(PollInterval)

\* A loop that gives up one sleep too late.
TimedOutLate(now, start, max_wait) == now - start > Sec(max_wait) + SleepTicks

\* time.time() - start_time > max_wait
TimedOut(now, start, max_wait) == now - start > Sec(max_wait)

\* A loop that never looks for the file.
MissingAlways(path) == TRUE

\* Line 169: not os.path.exists(file_path)
Missing(path) == ~exists(SibFile(path))

WaitFound ==
    /\ w_pc = "loop"
    /\ ~Missing(w_path)
    /\ w_ret' = "True"
    /\ w_end' = clock
    /\ w_pc' = "done"
    /\ UNCHANGED <<w_path, w_max, w_start, w_sleeps, w_missed, clock>>
    /\ UNCHANGED <<sibState, validVars, capVars, matVars, fsVars, genVars, bootVars>>

WaitExpired ==
    /\ w_pc = "loop"
    /\ Missing(w_path)
    /\ TimedOut(clock, w_start, w_max)
    /\ w_ret' = "False"
    /\ w_end' = clock
    /\ w_pc' = "done"
    /\ UNCHANGED <<w_path, w_max, w_start, w_sleeps, w_missed, clock>>
    /\ UNCHANGED <<sibState, validVars, capVars, matVars, fsVars, genVars, bootVars>>

WaitSleep ==
    /\ w_pc = "loop"
    /\ Missing(w_path)
    /\ ~TimedOut(clock, w_start, w_max)
    /\ clock' = clock + SleepTicks
    /\ w_sleeps' = w_sleeps + 1
    /\ w_missed' = (sibState[w_path] = "pending"
                        /\ clock' - w_start > Sec(w_max))
    /\ UNCHANGED <<w_pc, w_path, w_max, w_start, w_ret, w_end>>
    /\ UNCHANGED <<sibState, validVars, capVars, matVars, fsVars, genVars, bootVars>>

WaitIdle ==
    /\ w_pc = "idle"
    /\ w_path = "/shared_ca_cert.pem"
    /\ w_max = 0
    /\ w_start = 0
    /\ w_sleeps = 0
    /\ w_ret = "none"
    /\ w_end = 0
    /\ w_missed = FALSE

\* The locals of a call that has returned are dropped.
WaitReturned ==
    /\ w_pc' = "idle"
    /\ w_path' = "/shared_ca_cert.pem"
    /\ w_max' = 0
    /\ w_start' = 0
    /\ w_sleeps' = 0
    /\ w_ret' = "none"
    /\ w_end' = 0
    /\ w_missed' = FALSE

WaitInit ==
    /\ w_pc = "loop"
    /\ w_path \in SiblingPaths
    /\ w_max \in 1..MaxWaitArg
    /\ w_start = 0
    /\ w_sleeps = 0
    /\ w_ret = "none"
    /\ w_end = 0
    /\ w_missed = FALSE

---------------------------------------------------------------------------
(* generate_ca, of process p *)

Procs == {"boot", "other"}

\* The test of line 81 turned round: generate when both exist.
BothExistInverted(key, cert) == ~(exists(key) /\ exists(cert))

\* os.path.exists(CA_KEY) and os.path.exists(CA_CERT)
BothExist(key, cert) == exists(key) /\ exists(cert)

\* Process p calls generate_ca (line 215 of its run of the script).
GenCall(p) ==
    /\ g_pc[p] = "idle"
    /\ g_pc' = [g_pc EXCEPT ![p] = "ensure"]
    /\ UNCHANGED <<nextSerial, g_serial, g_key0, g_cert0>>
    /\ UNCHANGED <<clock, sibState, waitVars, validVars, capVars, matVars, fsVars, bootVars>>

\* ensure_directories_and_files: ok is whether os.makedirs and the write of
\* squid_no_ssl.conf succeed where they are needed.  What a failed call has
\* made before it failed is not kept apart from nothing made.
GenEnsure(p) ==
    /\ g_pc[p] = "ensure"
    /\ \E ok \in BOOLEAN :
        IF ensured \/ ok
        THEN /\ ensured' = TRUE
             /\ g_pc' = [g_pc EXCEPT ![p] = "check"]
        ELSE /\ UNCHANGED ensured
             /\ g_pc' = [g_pc EXCEPT ![p] = "done"]
    /\ UNCHANGED <<caKey, caCert, trustDir, trustStore, isLinux>>
    /\ UNCHANGED <<nextSerial, g_serial, g_key0, g_cert0>>
    /\ UNCHANGED <<clock, sibState, waitVars, validVars, capVars, matVars, bootVars>>

GenCheck(p) ==
    /\ g_pc[p] = "check"
    /\ g_pc' = [g_pc EXCEPT ![p] =
                    IF BothExist(caKey, caCert) THEN "done" ELSE "build"]
    /\ UNCHANGED <<nextSerial, g_serial, g_key0, g_cert0>>
    /\ UNCHANGED <<clock, sibState, waitVars, validVars, capVars, matVars, fsVars, bootVars>>

\* rsa.generate_private_key ... sign: a new key pair, or an exception.
GenBuild(p) ==
    /\ g_pc[p] = "build"
    /\ \E ok \in BOOLEAN :
        IF ok
        THEN /\ g_serial' = [g_serial EXCEPT ![p] = nextSerial]
             /\ nextSerial' = nextSerial + 1
             /\ g_pc' = [g_pc EXCEPT ![p] = "open_key"]
        ELSE /\ g_pc' = [g_pc EXCEPT ![p] = "done"]
             /\ UNCHANGED <<nextSerial, g_serial>>
    /\ UNCHANGED <<g_key0, g_cert0>>
    /\ UNCHANGED <<clock, sibState, waitVars, validVars, capVars, matVars, fsVars, bootVars>>

\* open(CA_KEY, "wb") creates or truncates the file.
GenOpenKey(p) ==
    /\ g_pc[p] = "open_key"
    /\ \E ok \in BOOLEAN :
        IF ok
        THEN /\ caKey' = <<>>
             /\ g_pc' = [g_pc EXCEPT ![p] = "write_key"]
        ELSE /\ g_pc' = [g_pc EXCEPT ![p] = "done"]
             /\ UNCHANGED caKey
    /\ UNCHANGED <<caCert, ensured, trustDir, trustStore, isLinux>>
    /\ UNCHANGED <<nextSerial, g_serial, g_key0, g_cert0>>
    /\ UNCHANGED <<clock, sibState, waitVars, validVars, capVars, matVars, bootVars>>

\* f.write(...) and the close that flushes it.
GenWriteKey(p) ==
    /\ g_pc[p] = "write_key"
    /\ \E ok \in BOOLEAN :
        IF ok
        THEN /\ caKey' = KeyPem(g_serial[p])
             /\ g_pc' = [g_pc EXCEPT ![p] = "open_cert"]
        ELSE /\ g_pc' = [g_pc EXCEPT ![p] = "done"]
             /\ UNCHANGED caKey
    /\ UNCHANGED <<caCert, ensured, trustDir, trustStore, isLinux>>
    /\ UNCHANGED <<nextSerial, g_serial, g_key0, g_cert0>>
    /\ UNCHANGED <<clock, sibState, waitVars, validVars, capVars, matVars, bootVars>>

GenOpenCert(p) ==
    /\ g_pc[p] = "open_cert"
    /\ \E ok \in BOOLEAN :
        IF ok
        THEN /\ caCert' = <<>>
             /\ g_pc' = [g_pc EXCEPT ![p] = "write_cert"]
        ELSE /\ g_pc' = [g_pc EXCEPT ![p] = "done"]
             /\ UNCHANGED caCert
    /\ UNCHANGED <<caKey, ensured, trustDir, trustStore, isLinux>>
    /\ UNCHANGED <<nextSerial, g_serial, g_key0, g_cert0>>
    /\ UNCHANGED <<clock, sibState, waitVars, validVars, capVars, matVars, bootVars>>

GenWriteCert(p) ==
    /\ g_pc[p] = "write_cert"
    /\ \E ok \in BOOLEAN :
        IF ok THEN caCert' = CertPem(g_serial[p]) ELSE UNCHANGED caCert
    /\ g_pc' = [g_pc EXCEPT ![p] = "done"]
    /\ UNCHANGED <<caKey, ensured, trustDir, trustStore, isLinux>>
    /\ UNCHANGED <<nextSerial, g_serial, g_key0, g_cert0>>
    /\ UNCHANGED <<clock, sibState, waitVars, validVars, capVars, matVars, bootVars>>

---------------------------------------------------------------------------
(* install_ca *)

DstNames == {"proxy-ja4-ca.crt", "mitmproxy-ca.crt", "squid-ca.crt"}

\* install_ca(src, dst_name) on the trust directory dir and its files store:
\* the result and what it leaves.  mkdirOk: os.makedirs(dst_dir) succeeds;
\* copyOk: shutil.copy(src, dst) succeeds.  Neither is in a try that covers
\* the copy, so a failed copy leaves install_ca as an exception.
\* The same with the trust directory made before the source is looked at.
install_ca_mkdir_first(src, dst_name, dir, store, mkdirOk, copyOk) ==
    IF ~dir /\ ~mkdirOk
    THEN [ret |-> "False", dir |-> dir, store |-> store]
    ELSE IF ~exists(src)
    THEN [ret |-> "False", dir |-> TRUE, store |-> store]
    ELSE IF ~copyOk
    THEN [ret |-> "raise", dir |-> TRUE, store |-> store]
    ELSE [ret |-> "True", dir |-> TRUE,
          store |-> [store EXCEPT ![dst_name] = src]]

install_ca(src, dst_name, dir, store, mkdirOk, copyOk) ==
    IF ~exists(src)
    THEN [ret |-> "False", dir |-> dir, store |-> store]
    ELSE IF ~dir /\ ~mkdirOk
    THEN [ret |-> "False", dir |-> dir, store |-> store]
    ELSE IF ~copyOk
    THEN [ret |-> "raise", dir |-> TRUE, store |-> store]
    ELSE [ret |-> "True", dir |-> TRUE,
          store |-> [store EXCEPT ![dst_name] = src]]

\* The call's effect on the state, r being what install_ca gave.
Installed(src, r) ==
    /\ trustDir' = r.dir
    /\ trustStore' = r.store
    /\ i_ret' = r.ret
    /\ i_src' = exists(src)
    /\ okSinceRefresh' = (okSinceRefresh \/ r.ret = "True")

\* subprocess.run(["update-ca-certificates"]): exit status zero, non-zero, or
\* no such command (FileNotFoundError).
RefreshOutcomes == {"ok", "nonzero", "unavailable"}

---------------------------------------------------------------------------
(* The bootstrap script, top to bottom *)

SiblingOrder == <<"/mitm_ca/mitmproxy-ca-cert.pem", "/shared_ca_cert.pem">>
SiblingDst == <<"mitmproxy-ca.crt", "squid-ca.crt">>

\* Step 1: generate_ca() is called.
BootStart ==
    /\ b_pc = "start"
    /\ g_pc["boot"] = "idle"
    /\ g_pc' = [g_pc EXCEPT !["boot"] = "ensure"]
    /\ g_key0' = caKey
    /\ g_cert0' = caCert
    /\ b_pc' = "gen"
    /\ UNCHANGED <<nextSerial, g_serial>>
    /\ UNCHANGED <<b_auto, b_valid, b_exit, ca_installed, a_idx, a_waited,
                   i_ret, i_src, refreshes, okSinceRefresh, runs>>
    /\ UNCHANGED <<clock, sibState, waitVars, validVars, capVars, matVars, fsVars>>

\* Step 1.5, entered when generate_ca has returned: it prints and logs only.
Validation(key, cert, readable) ==
    IF ~exists(cert) \/ ~exists(key) THEN "missing"
    ELSE IF is_valid_pem_cert(cert, readable) # "True" THEN "invalid"
    ELSE "valid"

BootValidate ==
    /\ b_pc = "gen"
    /\ g_pc["boot"] = "done"
    /\ g_pc' = [g_pc EXCEPT !["boot"] = "idle"]
    /\ g_key0' = Absent
    /\ g_cert0' = Absent
    /\ \E readable \in BOOLEAN : b_valid' = Validation(caKey, caCert, readable)
    /\ b_pc' = "step2"
    /\ UNCHANGED <<nextSerial, g_serial>>
    /\ UNCHANGED <<b_auto, b_exit, ca_installed, a_idx, a_waited,
                   i_ret, i_src, refreshes, okSinceRefresh, runs>>
    /\ UNCHANGED <<clock, sibState, waitVars, validVars, capVars, matVars, fsVars>>

\* Where the script goes once Step 2 is over.
AfterStep2 == IF b_auto THEN "auto_wait" ELSE "verify"

\* Step 2: install_ca(CA_CERT, "proxy-ja4-ca.crt"), on Linux only.
BootStep2 ==
    /\ b_pc = "step2"
    /\ IF isLinux
       THEN \E mkdirOk \in BOOLEAN, copyOk \in BOOLEAN :
               LET r == install_ca(caCert, "proxy-ja4-ca.crt", trustDir,
                                   trustStore, mkdirOk, copyOk)
               IN  /\ Installed(caCert, r)
                   /\ ca_installed' = (r.ret = "True")
                   /\ b_pc' = CASE r.ret = "True" -> "step2_refresh"
                                [] r.ret = "False" -> AfterStep2
                                [] OTHER -> "exited"
                   /\ b_exit' = IF r.ret = "raise" THEN 1 ELSE b_exit
       ELSE /\ b_pc' = AfterStep2
            /\ UNCHANGED <<trustDir, trustStore, i_ret, i_src, okSinceRefresh,
                           ca_installed, b_exit>>
    /\ UNCHANGED <<caKey, caCert, ensured, isLinux>>
    /\ UNCHANGED <<b_auto, b_valid, a_idx, a_waited, refreshes, runs>>
    /\ UNCHANGED <<clock, sibState, waitVars, validVars, capVars, matVars, genVars>>

\* if ca_installed: subprocess.run(["update-ca-certificates"]), unchecked.
BootStep2Refresh ==
    /\ b_pc = "step2_refresh"
    /\ \E out \in RefreshOutcomes :
        /\ b_pc' = IF out = "unavailable" THEN "exited" ELSE AfterStep2
        /\ b_exit' = IF out = "unavailable" THEN 1 ELSE b_exit
    /\ refreshes' = refreshes + 1
    /\ okSinceRefresh' = FALSE
    /\ UNCHANGED <<b_auto, b_valid, ca_installed, a_idx, a_waited, i_ret,
                   i_src, runs>>
    /\ UNCHANGED <<clock, sibState, waitVars, validVars, capVars, matVars, fsVars, genVars>>

\* auto_install_all_cas: wait_for_file(path) for the sibling at a_idx.
AutoWaitCall ==
    /\ b_pc = "auto_wait"
    /\ w_pc' = "loop"
    /\ w_path' = SiblingOrder[a_idx]
    /\ w_max' = DefaultMaxWait
    /\ w_start' = clock
    /\ w_sleeps' = 0
    /\ w_ret' = "none"
    /\ w_end' = 0
    /\ w_missed' = FALSE
    /\ a_waited' = a_waited \cup {SiblingOrder[a_idx]}
    /\ b_pc' = "auto_waiting"
    /\ UNCHANGED <<b_auto, b_valid, b_exit, ca_installed, a_idx, i_ret, i_src,
                   refreshes, okSinceRefresh, runs>>
    /\ UNCHANGED <<clock, sibState, validVars, capVars, matVars, fsVars, genVars>>

\* After the sibling at a_idx: the next sibling, or the refresh.
AfterSibling == IF a_idx < Len(SiblingOrder) THEN "auto_wait" ELSE "auto_refresh"
NextIdx == IF a_idx < Len(SiblingOrder) THEN a_idx + 1 ELSE a_idx

\* wait_for_file has returned: install, or log and go on.  A clock reading
\* is only ever compared with the start_time of the same call, so the clock
\* is counted anew from the return.
AutoWaitReturn ==
    /\ b_pc = "auto_waiting"
    /\ w_pc = "done"
    /\ WaitReturned
    /\ clock' = 0
    /\ IF w_ret = "True"
       THEN b_pc' = "auto_install" /\ UNCHANGED a_idx
       ELSE b_pc' = AfterSibling /\ a_idx' = NextIdx
    /\ UNCHANGED <<b_auto, b_valid, b_exit, ca_installed, a_waited, i_ret,
                   i_src, refreshes, okSinceRefresh, runs>>
    /\ UNCHANGED <<sibState, validVars, capVars, matVars, fsVars, genVars>>

\* install_ca(path, name) for the sibling at a_idx.
AutoInstall ==
    /\ b_pc = "auto_install"
    /\ \E mkdirOk \in BOOLEAN, copyOk \in BOOLEAN :
        LET src == SibFile(SiblingOrder[a_idx])
            r == install_ca(src, SiblingDst[a_idx], trustDir, trustStore,
                            mkdirOk, copyOk)
        IN  /\ Installed(src, r)
            /\ b_pc' = IF r.ret = "raise" THEN "exited" ELSE AfterSibling
            /\ b_exit' = IF r.ret = "raise" THEN 1 ELSE b_exit
            /\ a_idx' = IF r.ret = "raise" THEN a_idx ELSE NextIdx
    /\ UNCHANGED <<caKey, caCert, ensured, isLinux>>
    /\ UNCHANGED <<b_auto, b_valid, ca_installed, a_waited, refreshes, runs>>
    /\ UNCHANGED <<clock, sibState, waitVars, validVars, capVars, matVars, genVars>>

\* A refresh on every platform.
RefreshAnywhere == TRUE

\* if platform.system() == "Linux":
RefreshPlatform == isLinux

\* ... subprocess.run([...], check=True), with CalledProcessError caught and
\* nothing else.
AutoRefresh ==
    /\ b_pc = "auto_refresh"
    /\ IF RefreshPlatform
       THEN /\ \E out \in RefreshOutcomes :
                /\ b_pc' = IF out = "unavailable" THEN "exited" ELSE "park"
                /\ b_exit' = IF out = "unavailable" THEN 1 ELSE b_exit
            /\ refreshes' = refreshes + 1
            /\ okSinceRefresh' = FALSE
       ELSE /\ b_pc' = "park"
            /\ UNCHANGED <<b_exit, refreshes, okSinceRefresh>>
    /\ UNCHANGED <<b_auto, b_valid, ca_installed, a_idx, a_waited, i_ret,
                   i_src, runs>>
    /\ UNCHANGED <<clock, sibState, waitVars, validVars, capVars, matVars, fsVars, genVars>>

\* while True: time.sleep(3600).  No later time is read, so the clock is left.
BootPark ==
    /\ b_pc = "park"
    /\ UNCHANGED vars

\* Manual mode: the existence of both files is logged, and the script ends.
BootVerify ==
    /\ b_pc = "verify"
    /\ b_pc' = "exited"
    /\ b_exit' = 0
    /\ UNCHANGED <<b_auto, b_valid, ca_installed, a_idx, a_waited, i_ret,
                   i_src, refreshes, okSinceRefresh, runs>>
    /\ UNCHANGED <<clock, sibState, waitVars, validVars, capVars, matVars, fsVars, genVars>>

\* The script is run again, in either mode.  A run is a new process: only
\* differences of clock readings within a run are used, so its clock starts
\* from zero.
BootRerun ==
    /\ b_pc = "exited"
    /\ runs < MaxRuns
    /\ runs' = runs + 1
    /\ b_pc' = "start"
    /\ b_auto' \in BOOLEAN
    /\ b_valid' = "none"
    /\ b_exit' = 0
    /\ ca_installed' = FALSE
    /\ a_idx' = 1
    /\ a_waited' = {}
    /\ i_ret' = "none"
    /\ i_src' = FALSE
    /\ refreshes' = 0
    /\ okSinceRefresh' = FALSE
    /\ clock' = 0
    /\ UNCHANGED <<sibState, waitVars, validVars, capVars, matVars, fsVars, genVars>>

GenIdle ==
    /\ nextSerial = 1
    /\ g_pc = [p \in Procs |-> "idle"]
    /\ g_serial = [p \in Procs |-> 0]
    /\ g_key0 = Absent
    /\ g_cert0 = Absent

BootFirstRun ==
    /\ b_pc = "start"
    /\ b_valid = "none"
    /\ b_exit = 0
    /\ ca_installed = FALSE
    /\ a_idx = 1
    /\ a_waited = {}
    /\ i_ret = "none"
    /\ i_src = FALSE
    /\ refreshes = 0
    /\ okSinceRefresh = FALSE
    /\ runs = 1

\* No CA files, or what an earlier run or a careless hand left of them.
FsInit ==
    /\ caKey \in {Absent, KeyPem(0)}
    /\ caCert \in {Absent, <<JUNK>>, CertPem(0)}
    /\ ensured \in BOOLEAN
    /\ trustDir \in BOOLEAN
    /\ trustStore = [n \in DstNames |-> Absent]
    /\ isLinux \in BOOLEAN

FsIdle ==
    /\ caKey = Absent
    /\ caCert = Absent
    /\ ensured = FALSE
    /\ trustDir = FALSE
    /\ trustStore = [n \in DstNames |-> Absent]
    /\ isLinux = TRUE

BootIdle == BootFirstRun /\ b_auto = FALSE

BootInit == BootFirstRun /\ b_auto \in BOOLEAN

SibInit == sibState \in [SiblingPaths -> {"pending", "present"}]

SibIdle == sibState = [p \in SiblingPaths |-> "pending"]

---------------------------------------------------------------------------
(* The capture driver, scripts/capture.py *)

MaxCmds == 3
MaxFlips == 2
MaxClock == 3

GracePeriod == 2

\* Names of capture files, each a pair like the blocks of a file.
NoName == <<"none", 0>>
NoFile == <<"nofile", 0>>
EmptyName == <<"", 0>>
Auto == <<"auto", 0>>
TestPcap == <<"test.pcap", 0>>
Padded == <<" test.pcap", 0>>

\* The values --output is given: "auto", a plain name, and a name with a
\* blank in front.
OutArgs == {Auto, TestPcap, Padded}

\* str.strip() of a name.
strip_name(name) == IF name = Padded THEN TestPcap ELSE name

\* datetime.now().strftime("%Y%m%d_%H%M%S"): the clock cut to whole seconds.
Timestamp(now) == now \div TicksPerSec

\* f"capture_{timestamp}.pcap"
CaptureName(now) == <<"capture", Timestamp(now)>>

\* Lines 120-122: "auto" becomes a name with the time in it.
ResolveName(arg, now) == IF arg = Auto THEN CaptureName(now) ELSE arg

\* A stop that does not read .current_capture.
current_capture_fallback(ptr) == TestPcap

\* Lines 160-164: the stripped content of .current_capture, or test.pcap
\* when there is no such file.
current_capture(ptr) == IF ptr # NoFile THEN strip_name(ptr) ELSE TestPcap

put(f, name, size) == [n \in DOMAIN f \cup {name} |-> IF n = name THEN size ELSE f[n]]

\* stop_tcpdump or copy_pcap returns ret to whoever called it: start_tcpdump,
\* which drops the result and goes on, or the command line.
\* stop_tcpdump, lines 145-166, as the statements follow one another: the
\* test of the container, pkill -INT, time.sleep(2), the read of
\* .current_capture, copy_pcap.
stop_step(step) ==
    CASE step = "sp_check" -> "sp_kill"
      [] step = "sp_kill" -> "sp_sleep"
      [] step = "sp_sleep" -> "sp_resolve"
      [] step = "sp_resolve" -> "cp_check"

StopReturns(ret) ==
    IF c_nested
    THEN /\ c_pc' = "st_resolve"
         /\ c_nested' = FALSE
         /\ UNCHANGED <<c_cmd, c_ret>>
    ELSE /\ c_pc' = "idle"
         /\ c_ret' = ret
         /\ UNCHANGED <<c_nested, c_cmd>>

\* An exception leaves every function on the stack: the command ends.
Raises ==
    /\ c_pc' = "idle"
    /\ c_ret' = "raise"
    /\ c_nested' = FALSE
    /\ UNCHANGED c_cmd

notCap == <<sibState, waitVars, validVars, fsVars, genVars, bootVars,
            matVars>>

\* python capture.py --start --output out
CapStart(out) ==
    /\ c_pc = "idle"
    /\ cmds < MaxCmds
    /\ cmds' = cmds + 1
    /\ c_cmd' = "start"
    /\ c_out' = out
    /\ c_name' = NoName
    /\ c_cur' = NoName
    /\ c_running' = "none"
    /\ c_ret' = "none"
    /\ c_session' = NoName
    /\ c_retrieved' = NoName
    /\ c_nested' = FALSE
    /\ c_pc' = "st_pre"
    /\ UNCHANGED <<clock, agentVars, localVars, notCap>>

\* python capture.py --stop
CapStop ==
    /\ c_pc = "idle"
    /\ cmds < MaxCmds
    /\ cmds' = cmds + 1
    /\ c_cmd' = "stop"
    /\ c_cur' = NoName
    /\ c_running' = "none"
    /\ c_ret' = "none"
    /\ c_retrieved' = NoName
    /\ c_nested' = FALSE
    /\ c_pc' = "sp_check"
    /\ UNCHANGED <<c_out, c_name, c_session>>
    /\ UNCHANGED <<clock, agentVars, localVars, notCap>>

\* check_container_running: docker ps names the container (run_cmd turns
\* every failure of the command into an empty answer).
ContainerSeen(dockerOk) == container /\ dockerOk

\* Line 113: check_container_running() and check_tcpdump() and
\* ensure_capture_dir(); then stop_tcpdump(quiet=True).  (list_interfaces,
\* called before, only logs.)
StPre ==
    /\ c_pc = "st_pre"
    /\ \E dockerOk \in BOOLEAN, apkOk \in BOOLEAN, verOk \in BOOLEAN,
          mkdirOk \in BOOLEAN :
        IF ~ContainerSeen(dockerOk)
        THEN /\ c_pc' = "idle" /\ c_ret' = "False"
             /\ UNCHANGED <<tcpdumpInstalled, capDir, c_nested>>
        ELSE IF ~tcpdumpInstalled /\ ~apkOk
        THEN \* lines 76-85: which finds nothing and apk add fails
             /\ c_pc' = "idle" /\ c_ret' = "False"
             /\ UNCHANGED <<tcpdumpInstalled, capDir, c_nested>>
        ELSE IF ~verOk
        THEN \* lines 88-99: tcpdump --version fails
             /\ c_pc' = "idle" /\ c_ret' = "False"
             /\ tcpdumpInstalled' = TRUE
             /\ UNCHANGED <<capDir, c_nested>>
        ELSE IF ~capDir /\ ~mkdirOk
        THEN /\ c_pc' = "idle" /\ c_ret' = "False"
             /\ tcpdumpInstalled' = TRUE
             /\ UNCHANGED <<capDir, c_nested>>
        ELSE /\ tcpdumpInstalled' = TRUE
             /\ capDir' = TRUE
             /\ c_nested' = TRUE
             /\ c_pc' = "sp_check"
             /\ UNCHANGED c_ret
    /\ UNCHANGED <<container, agentProcs, agentFiles, flips>>
    /\ UNCHANGED <<localFiles, pointer>>
    /\ UNCHANGED <<c_cmd, c_out, c_name, c_cur, c_running, c_session,
                   c_retrieved, cmds>>
    /\ UNCHANGED <<clock, notCap>>

\* stop_tcpdump, lines 145-146.
SpCheck ==
    /\ c_pc = "sp_check"
    /\ \E dockerOk \in BOOLEAN :
        IF ContainerSeen(dockerOk)
        THEN /\ c_running' = "True"
             /\ c_pc' = stop_step(c_pc)
             /\ UNCHANGED <<c_nested, c_cmd, c_ret>>
        ELSE /\ c_running' = "False"
             /\ StopReturns("False")
    /\ UNCHANGED <<c_out, c_name, c_cur, c_session, c_retrieved, cmds>>
    /\ UNCHANGED <<clock, agentVars, localVars, notCap>>

\* Lines 148-154: pkill -INT tcpdump in the container.  Where the signal is
\* sent every tcpdump there ends; its file stays.
SpKill ==
    /\ c_pc = "sp_kill"
    /\ \E sent \in BOOLEAN :
        agentProcs' = IF sent /\ container THEN {} ELSE agentProcs
    /\ c_pc' = stop_step(c_pc)
    /\ UNCHANGED <<container, tcpdumpInstalled, agentFiles, flips>>
    /\ UNCHANGED <<c_cmd, c_nested, c_out, c_name, c_cur, c_running, c_ret,
                   c_session, c_retrieved, cmds>>
    /\ UNCHANGED <<clock, localVars, notCap>>

\* Line 157: time.sleep(2).
SpSleep ==
    /\ c_pc = "sp_sleep"
    /\ clock' = clock + Sec(GracePeriod)
    /\ c_pc' = stop_step(c_pc)
    /\ UNCHANGED <<c_cmd, c_nested, c_out, c_name, c_cur, c_running, c_ret,
                   c_session, c_retrieved, cmds>>
    /\ UNCHANGED <<agentVars, localVars, notCap>>

\* Lines 160-166: the name to retrieve, and the call of copy_pcap.  The read
\* of .current_capture is in no try.
SpResolve ==
    /\ c_pc = "sp_resolve"
    /\ \E readOk \in BOOLEAN :
        IF capDir /\ pointer # NoFile /\ ~readOk
        THEN /\ Raises
             /\ UNCHANGED <<c_cur, c_retrieved>>
        ELSE /\ c_cur' = current_capture(IF capDir THEN pointer ELSE NoFile)
             /\ c_retrieved' = c_cur'
             /\ c_pc' = stop_step(c_pc)
             /\ UNCHANGED <<c_cmd, c_nested, c_ret>>
    /\ UNCHANGED <<c_out, c_name, c_running, c_session, cmds>>
    /\ UNCHANGED <<clock, agentVars, localVars, notCap>>

\* copy_pcap, lines 169-170.
CpCheck ==
    /\ c_pc = "cp_check"
    /\ \E dockerOk \in BOOLEAN, mkdirOk \in BOOLEAN :
        IF ~ContainerSeen(dockerOk) \/ (~capDir /\ ~mkdirOk)
        THEN /\ StopReturns("False")
             /\ UNCHANGED capDir
        ELSE /\ capDir' = TRUE
             /\ c_pc' = "cp_copy"
             /\ UNCHANGED <<c_nested, c_cmd, c_ret>>
    /\ UNCHANGED <<localFiles, pointer>>
    /\ UNCHANGED <<c_out, c_name, c_cur, c_running, c_session, c_retrieved,
                   cmds>>
    /\ UNCHANGED <<clock, agentVars, notCap>>

\* Lines 172-179: docker cp capture_poc:/captures/<name> ./captures/<name>.
\* With the empty name it is the directory that is copied: no file of the
\* model changes.
CpCopy ==
    /\ c_pc = "cp_copy"
    /\ \E cpOk \in BOOLEAN :
        IF cpOk /\ capDir /\ (c_cur \in DOMAIN agentFiles \/ c_cur = EmptyName)
        THEN /\ localFiles' = IF c_cur = EmptyName THEN localFiles
                              ELSE put(localFiles, c_cur, agentFiles[c_cur])
             /\ c_pc' = "cp_verify"
             /\ UNCHANGED <<c_nested, c_cmd, c_ret>>
        ELSE /\ StopReturns("False")
             /\ UNCHANGED localFiles
    /\ UNCHANGED <<capDir, pointer>>
    /\ UNCHANGED <<c_out, c_name, c_cur, c_running, c_session, c_retrieved,
                   cmds>>
    /\ UNCHANGED <<clock, agentVars, notCap>>

\* Lines 181-187: os.path.exists of the local file decides the result.
LocalExists(name) == capDir /\ (name \in DOMAIN localFiles \/ name = EmptyName)

CpVerify ==
    /\ c_pc = "cp_verify"
    /\ StopReturns(IF LocalExists(c_cur) THEN "True" ELSE "False")
    /\ UNCHANGED <<c_out, c_name, c_cur, c_running, c_session, c_retrieved,
                   cmds>>
    /\ UNCHANGED <<clock, agentVars, localVars, notCap>>

\* Lines 120-124.
StResolve ==
    /\ c_pc = "st_resolve"
    /\ c_name' = ResolveName(c_out, clock)
    /\ c_pc' = "st_launch"
    /\ UNCHANGED <<c_cmd, c_nested, c_out, c_cur, c_running, c_ret, c_session,
                   c_retrieved, cmds>>
    /\ UNCHANGED <<clock, agentVars, localVars, notCap>>

\* Lines 126-136: docker exec -d ... tcpdump -w /captures/<name>.  rc is that
\* of docker exec; a tcpdump started detached may still end at once, with
\* no file or an empty one.
LaunchOutcomes == {"rc_fail", "running", "died", "died_empty"}

\* A start that goes on to write .current_capture whatever rc was.
after_launch_unchecked(out) == "st_persist"

\* Lines 132-136: with rc # 0 start_tcpdump returns False; else it goes on.
after_launch(out) == IF out = "rc_fail" THEN "idle" ELSE "st_persist"

StLaunch ==
    /\ c_pc = "st_launch"
    /\ \E out \in LaunchOutcomes :
        /\ (out # "rc_fail") => container
        /\ CASE out = "rc_fail" ->
                    /\ c_pc' = after_launch(out) /\ c_ret' = "False"
                    /\ UNCHANGED <<agentProcs, agentFiles>>
             [] out = "running" ->
                    /\ agentProcs' = agentProcs \cup {<<c_name, cmds>>}
                    /\ agentFiles' = put(agentFiles, c_name, "data")
                    /\ c_pc' = after_launch(out) /\ UNCHANGED c_ret
             [] out = "died" ->
                    /\ UNCHANGED <<agentProcs, agentFiles>>
                    /\ c_pc' = after_launch(out) /\ UNCHANGED c_ret
             [] out = "died_empty" ->
                    /\ agentFiles' = put(agentFiles, c_name, "empty")
                    /\ c_pc' = after_launch(out) /\ UNCHANGED <<c_ret, agentProcs>>
    /\ UNCHANGED <<container, tcpdumpInstalled, flips>>
    /\ UNCHANGED <<c_cmd, c_nested, c_out, c_name, c_cur, c_running,
                   c_session, c_retrieved, cmds>>
    /\ UNCHANGED <<clock, localVars, notCap>>

\* Lines 139-142: the name is written to .current_capture, in no try: open
\* may fail, and a write that fails leaves the file empty.
PersistOutcomes == {"ok", "open_fails", "write_fails"}

StPersist ==
    /\ c_pc = "st_persist"
    /\ \E out \in PersistOutcomes :
        /\ (out = "ok") => capDir
        /\ CASE out = "ok" ->
                    /\ pointer' = c_name
                    /\ c_session' = c_name
                    /\ c_pc' = "idle" /\ c_ret' = "True"
                    /\ UNCHANGED <<c_nested, c_cmd>>
             [] out = "open_fails" ->
                    /\ Raises
                    /\ UNCHANGED <<pointer, c_session>>
             [] out = "write_fails" ->
                    /\ Raises
                    /\ pointer' = IF capDir THEN EmptyName ELSE pointer
                    /\ UNCHANGED c_session
    /\ UNCHANGED <<capDir, localFiles>>
    /\ UNCHANGED <<c_out, c_name, c_cur, c_running, c_retrieved, cmds>>
    /\ UNCHANGED <<clock, agentVars, notCap>>

\* The container is stopped (its processes end) or started, by someone else.
EnvContainer ==
    /\ flips < MaxFlips
    /\ flips' = flips + 1
    /\ container' = ~container
    /\ agentProcs' = {}
    /\ UNCHANGED <<tcpdumpInstalled, agentFiles>>
    /\ UNCHANGED <<clock, localVars, drvVars, notCap>>

\* Time goes by between two commands.
EnvTick ==
    /\ c_pc = "idle"
    /\ clock < MaxClock
    /\ clock' = clock + 1
    /\ UNCHANGED <<capVars, notCap>>

NoFiles == [n \in {} |-> "data"]

DrvIdle ==
    /\ c_pc = "idle"
    /\ c_cmd = "none"
    /\ c_nested = FALSE
    /\ c_out = TestPcap
    /\ c_name = NoName
    /\ c_cur = NoName
    /\ c_running = "none"
    /\ c_ret = "none"
    /\ c_session = NoName
    /\ c_retrieved = NoName
    /\ cmds = 0

CapIdle ==
    /\ container = FALSE
    /\ tcpdumpInstalled = FALSE
    /\ agentProcs = {}
    /\ agentFiles = NoFiles
    /\ flips = 0
    /\ capDir = FALSE
    /\ localFiles = NoFiles
    /\ pointer = NoFile
    /\ DrvIdle

\* A fresh checkout: nothing captured yet; the container up or not.
CapInit ==
    /\ container \in BOOLEAN
    /\ tcpdumpInstalled \in BOOLEAN
    /\ agentProcs = {}
    /\ agentFiles = NoFiles
    /\ flips = 0
    /\ capDir \in BOOLEAN
    /\ localFiles = NoFiles
    /\ pointer = NoFile
    /\ DrvIdle

---------------------------------------------------------------------------
(* The test matrix, tests/test_all_proxies.py *)

\* TEST_HOSTS and the names of PROXIES, in the order they are declared.
TEST_HOSTS == <<"http://httpbin.org/get", "https://httpbin.org/get",
                "http://example.com", "https://example.com">>

PROXIES == <<"direct", "squid", "mitmproxy">>

\* What requests.get does in check_proxy_health: an answer below 500, an
\* answer of 500 or more, or an exception.
HealthOutcomes == {"pass", "fail", "exception"}

\* Lines 62-91: every exception is caught; True only for an answer below 500.
check_proxy_health(out) == out = "pass"

\* What subprocess.run of curl does: it returns an exit status, or raises
\* (curl not there to run).
ClientOutcomes == {<<"rc", 0>>, <<"rc", 7>>, <<"raise", 0>>}

\* A request counted as passed whatever curl returned.
success_always(returncode) == TRUE

\* Line 132.
success(returncode) == returncode = 0

\* Lines 135-142.
record_result(res, proxy_name, host, returncode) ==
    Append(res, [proxy |-> proxy_name, url |-> host,
                     success |-> success(returncode),
                     return_code |-> returncode])

\* A request that raised and left no entry.
record_exception_dropped(res, proxy_name, host) == res

\* Lines 144-152.
record_exception(res, proxy_name, host) ==
    Append(res, [proxy |-> proxy_name, url |-> host,
                     success |-> FALSE, error |-> TRUE])

\* sum(1 for r in results if r["success"])
successful_tests(res) ==
    Cardinality({i \in 1..Len(res) : res[i].success})

\* sum(1 for r in results if not r["success"])
failed_tests(res) ==
    Cardinality({i \in 1..Len(res) : ~res[i].success})

\* An exit status that is 0 whatever failed.
exit_code_zero(res) == 0

\* Lines 220-225: sys.exit(1) if a test failed; else main returns.
exit_code(res) == IF failed_tests(res) > 0 THEN 1 ELSE 0

\* Lines 191-201: what json.dump writes, less the time and the configuration.
Report(res) ==
    [total_tests |-> Len(res),
     successful_tests |-> successful_tests(res),
     results |-> res]

notMat == <<clock, sibState, waitVars, validVars, fsVars, genVars, bootVars,
            capVars>>

\* python test_all_proxies.py: main calls run_all_tests.
MatStart ==
    /\ m_pc = "idle"
    /\ m_pc' = "profile"
    /\ m_p' = 1
    /\ UNCHANGED <<m_h, m_health, results, all_results, m_report, m_exit>>
    /\ UNCHANGED notMat

\* python test_all_proxies.py --help: the usage is printed, nothing is run.
MatHelp ==
    /\ m_pc = "idle"
    /\ m_pc' = "done"
    /\ m_exit' = 0
    /\ UNCHANGED <<m_p, m_h, m_health, results, all_results, m_report>>
    /\ UNCHANGED notMat

\* Lines 107-108: a check that fails is logged; the hosts are tested either
\* way.
after_health(healthy) == "hosts"

\* test_proxy, lines 95-108: the health check of a profile that is not the
\* direct one.
MatHealth ==
    /\ m_pc = "profile"
    /\ results' = <<>>
    /\ m_h' = 1
    /\ IF PROXIES[m_p] # "direct"
       THEN \E out \in HealthOutcomes :
               /\ m_health' = out
               /\ m_pc' = after_health(check_proxy_health(out))
       ELSE /\ m_health' = "skipped"
            /\ m_pc' = "hosts"
    /\ UNCHANGED <<m_p, all_results, m_report, m_exit>>
    /\ UNCHANGED notMat

\* Lines 111-152: one host of the loop.
MatRequest ==
    /\ m_pc = "hosts"
    /\ m_h <= Len(TEST_HOSTS)
    /\ \E out \in ClientOutcomes :
        results' =
            IF out[1] = "rc"
            THEN record_result(results, PROXIES[m_p], TEST_HOSTS[m_h], out[2])
            ELSE record_exception(results, PROXIES[m_p], TEST_HOSTS[m_h])
    /\ m_h' = m_h + 1
    /\ UNCHANGED <<m_pc, m_p, m_health, all_results, m_report, m_exit>>
    /\ UNCHANGED notMat

\* Line 154 and lines 166-172: test_proxy returns and its results are added;
\* then the next profile, or the report.
MatReturn ==
    /\ m_pc = "hosts"
    /\ m_h > Len(TEST_HOSTS)
    /\ all_results' = all_results \o results
    /\ results' = <<>>
    /\ m_health' = "none"
    /\ m_h' = 1
    /\ IF m_p < Len(PROXIES)
       THEN m_p' = m_p + 1 /\ m_pc' = "profile"
       ELSE m_p' = 1 /\ m_pc' = "save"
    /\ UNCHANGED <<m_report, m_exit>>
    /\ UNCHANGED notMat

\* Lines 186-206: the report is written.  mkdir, open and json.dump are in
\* no try of run_all_tests: what they raise reaches main, lines 230-232.
MatSave ==
    /\ m_pc = "save"
    /\ \E ok \in BOOLEAN :
        IF ok
        THEN /\ m_report' = <<Report(all_results)>>
             /\ m_pc' = "exit"
             /\ UNCHANGED m_exit
        ELSE /\ m_pc' = "done"
             /\ m_exit' = 1
             /\ UNCHANGED m_report
    /\ UNCHANGED <<m_p, m_h, m_health, results, all_results>>
    /\ UNCHANGED notMat

\* Lines 217-225.
MatExit ==
    /\ m_pc = "exit"
    /\ m_exit' = exit_code(all_results)
    /\ m_pc' = "done"
    /\ UNCHANGED <<m_p, m_h, m_health, results, all_results, m_report>>
    /\ UNCHANGED notMat

MatIdle ==
    /\ m_pc = "idle"
    /\ m_p = 1
    /\ m_h = 1
    /\ m_health = "none"
    /\ results = <<>>
    /\ all_results = <<>>
    /\ m_report = <<>>
    /\ m_exit = 0

---------------------------------------------------------------------------
(* Specifications *)

\* wait_for_file alone, on every max_wait up to MaxWaitArg.
InitWait ==
    /\ clock = 0
    /\ SibInit /\ WaitInit
    /\ ValidIdle /\ FsIdle /\ GenIdle /\ BootIdle /\ CapIdle /\ MatIdle

NextWait ==
    \/ WaitFound
    \/ WaitExpired
    \/ WaitSleep
    \/ \E p \in SiblingPaths : EnvCreate(p)
    \/ \E p \in SiblingPaths : EnvRemove(p)

SpecWait == InitWait /\ [][NextWait]_vars

\* The interpreter keeps running the loop.
SpecWaitLive == SpecWait /\ WF_vars(WaitFound \/ WaitExpired \/ WaitSleep)

\* is_valid_pem_cert alone, on every file up to MaxLen blocks.
InitValid ==
    /\ clock = 0
    /\ ValidInit
    /\ SibIdle /\ WaitIdle /\ FsIdle /\ GenIdle /\ BootIdle /\ CapIdle /\ MatIdle

NextValid == ValidCall

SpecValid == InitValid /\ [][NextValid]_vars

\* The bootstrap script, run up to MaxRuns times, beside the sibling proxies.
InitBoot ==
    /\ clock = 0
    /\ SibIdle /\ FsInit /\ GenIdle /\ BootInit
    /\ WaitIdle /\ ValidIdle /\ CapIdle /\ MatIdle

NextBoot ==
    \/ BootStart
    \/ GenEnsure("boot")
    \/ GenCheck("boot")
    \/ GenBuild("boot")
    \/ GenOpenKey("boot")
    \/ GenWriteKey("boot")
    \/ GenOpenCert("boot")
    \/ GenWriteCert("boot")
    \/ BootValidate
    \/ BootStep2
    \/ BootStep2Refresh
    \/ AutoWaitCall
    \/ WaitFound
    \/ WaitExpired
    \/ WaitSleep
    \/ AutoWaitReturn
    \/ AutoInstall
    \/ AutoRefresh
    \/ BootPark
    \/ BootVerify
    \/ BootRerun
    \/ \E p \in SiblingPaths : EnvCreate(p)
    \/ \E p \in SiblingPaths : EnvRemove(p)

SpecBoot == InitBoot /\ [][NextBoot]_vars

\* The capture driver, run up to MaxCmds times with --start or --stop.
InitCap ==
    /\ clock = 0
    /\ CapInit
    /\ SibIdle /\ WaitIdle /\ ValidIdle /\ FsIdle /\ GenIdle /\ BootIdle
    /\ MatIdle

NextCap ==
    \/ \E out \in OutArgs : CapStart(out)
    \/ CapStop
    \/ StPre
    \/ SpCheck
    \/ SpKill
    \/ SpSleep
    \/ SpResolve
    \/ CpCheck
    \/ CpCopy
    \/ CpVerify
    \/ StResolve
    \/ StLaunch
    \/ StPersist
    \/ EnvContainer
    \/ EnvTick

SpecCap == InitCap /\ [][NextCap]_vars

\* One run of the test matrix, on every outcome of every request.
InitMat ==
    /\ clock = 0
    /\ MatIdle
    /\ SibIdle /\ WaitIdle /\ ValidIdle /\ FsIdle /\ GenIdle /\ BootIdle
    /\ CapIdle

NextMat ==
    \/ MatStart
    \/ MatHelp
    \/ MatHealth
    \/ MatRequest
    \/ MatReturn
    \/ MatSave
    \/ MatExit

SpecMat == InitMat /\ [][NextMat]_vars

\* Two runs of the script, each in its generate_ca, on the same directory.
InitGen ==
    /\ clock = 0
    /\ FsInit /\ GenIdle
    /\ SibIdle /\ WaitIdle /\ ValidIdle /\ BootIdle /\ CapIdle /\ MatIdle

NextGen ==
    \/ \E p \in Procs : GenCall(p)
    \/ \E p \in Procs : GenEnsure(p)
    \/ \E p \in Procs : GenCheck(p)
    \/ \E p \in Procs : GenBuild(p)
    \/ \E p \in Procs : GenOpenKey(p)
    \/ \E p \in Procs : GenWriteKey(p)
    \/ \E p \in Procs : GenOpenCert(p)
    \/ \E p \in Procs : GenWriteCert(p)

SpecGen == InitGen /\ [][NextGen]_vars

---------------------------------------------------------------------------
(* Properties *)

\* C1: a generate_ca call that finds both CA_KEY and CA_CERT in place writes
\* neither: from the call on (and so after a second and a third run) both
\* files are what they were when it was called.
C1_GenerateKeepsFiles ==
    (exists(g_key0) /\ exists(g_cert0)) => (caKey = g_key0 /\ caCert = g_cert0)

\* C1 witness: a second run's generate_ca has returned, having found the key
\* pair the first run made, and the files still hold that pair.
C1_Witness ==
    /\ runs = 2
    /\ b_pc = "gen"
    /\ g_pc["boot"] = "done"
    /\ g_key0 = KeyPem(1)
    /\ g_cert0 = CertPem(1)
    /\ caCert = CertPem(1)

\* C2: is_valid_pem_cert gives a bool on every file, never an exception, and
\* True only for a file that exists, is not empty and holds a well-formed
\* certificate; on a missing, empty or corrupted file it gives False.
C2_ValidOnlyIfWellFormed ==
    v_pc = "done" =>
        /\ v_ret \in {"True", "False"}
        /\ v_ret = "True" =>
              (exists(v_file) /\ v_file # <<>> /\ HasCertBlock(v_file))
        /\ (~exists(v_file) \/ v_file = <<>> \/ ~HasCertBlock(v_file)) =>
              v_ret = "False"

\* C2 witness: a readable, non-empty file that is no certificate was refused.
C2_Witness ==
    /\ v_pc = "done"
    /\ v_ret = "False"
    /\ exists(v_file)
    /\ v_readable
    /\ strip(v_file) # <<>>
    /\ ~HasCertBlock(v_file)

\* C3, as claimed: wait_for_file gives False whenever the file has not
\* appeared before max_wait went by.
C3_FalseIfNotBeforeDeadline ==
    (w_pc = "done" /\ w_missed) => w_ret = "False"

\* C3, amended: every wait_for_file call returns, with a bool, no later than
\* max_wait + 2 s after it began, and it gives False if the file has not
\* appeared by the time it returns.
C3_WaitBounded ==
    /\ [](w_pc = "done" =>
            /\ w_ret \in {"True", "False"}
            /\ w_end - w_start <= Sec(w_max + PollInterval)
            /\ sibState[w_path] = "pending" => w_ret = "False")
    /\ <>(w_pc = "done")

\* C3 witness: a call with max_wait = 6 has given False exactly 8 s after it
\* began.
C3_Witness ==
    /\ w_pc = "done"
    /\ w_max = 6
    /\ w_ret = "False"
    /\ w_end - w_start = Sec(w_max + PollInterval)

\* C4: with max_wait = 6 (and the 2 s poll) a call that gives False has slept
\* at most 3 times.
C4_ThreeSleeps ==
    (w_pc = "done" /\ w_max = 6 /\ w_ret = "False") => w_sleeps <= 3

\* The step of the script that is a call of install_ca, and its source.
InstallStep ==
    /\ \/ b_pc = "step2" /\ isLinux
       \/ b_pc = "auto_install"
    /\ b_pc' # b_pc

InstallSrc == IF b_pc = "step2" THEN caCert ELSE SibFile(SiblingOrder[a_idx])

\* C5: install_ca on a source that does not exist gives False and leaves the
\* trust directory and the files in it as they were.
C5_MissingSourceNoEffect ==
    [][(InstallStep /\ ~exists(InstallSrc)) =>
           /\ i_ret' = "False"
           /\ trustDir' = trustDir
           /\ trustStore' = trustStore]_vars

\* C5 witness: install_ca was called on a missing source, gave False, and
\* there is still no trust directory.
C5_Witness ==
    /\ i_ret = "False"
    /\ ~i_src
    /\ ~trustDir

\* C6, as claimed: update-ca-certificates is invoked only on Linux and only
\* when an install_ca has returned True since the last invocation.
C6_RefreshOnlyAfterInstall ==
    [][refreshes' # refreshes => (isLinux /\ okSinceRefresh)]_vars

\* C6, amended: update-ca-certificates is invoked only on Linux; the
\* invocation of Step 2 only after Step 2's install_ca returned True (the one
\* of automatic mode follows the sibling attempts whatever they gave).
C6_RefreshOnlyOnLinux ==
    [][refreshes' # refreshes =>
           /\ isLinux
           /\ b_pc = "step2_refresh" =>
                 (ca_installed /\ i_ret = "True" /\ okSinceRefresh)]_vars

\* C6 witness: an automatic run on Linux is parked after two invocations.
C6_Witness ==
    /\ b_pc = "park"
    /\ isLinux
    /\ refreshes = 2

\* C7: an automatic run that has waited for the mitmproxy CA and is over
\* (parked or ended) has also waited for the Squid CA.
C7_BothSiblingsAttempted ==
    (b_auto /\ b_pc \in {"park", "exited"} /\ SiblingOrder[1] \in a_waited)
        => SiblingOrder[2] \in a_waited

\* C8: a run in automatic mode never ends: whatever fails, it goes on to the
\* parked loop.
C8_AutoNeverExits ==
    b_auto => b_pc # "exited"

\* C9: after a successful start with --output auto, .current_capture holds
\* the name with the timestamp under which tcpdump was launched, and a stop
\* that follows with no start in between retrieves that name and no other.
C9_StopRetrievesSession ==
    (c_session # NoName /\ c_out = Auto) =>
        /\ c_session = c_name
        /\ c_name[1] = "capture"
        /\ pointer = c_session
        /\ (c_cmd = "stop" /\ c_retrieved # NoName) => c_retrieved = c_session

\* Two sessions with different names; the stop copies the file of the second.
C9_Witness ==
    /\ c_cmd = "stop" /\ c_pc = "idle" /\ c_ret = "True"
    /\ c_out = Auto
    /\ c_session # NoName
    /\ c_retrieved = c_session
    /\ c_session \in DOMAIN localFiles
    /\ \E n \in DOMAIN agentFiles : n[1] = "capture" /\ n # c_session

\* C10: a stop with no .current_capture does not raise and calls copy_pcap
\* with test.pcap, whatever the state of the container.
C10_StopWithoutPointer ==
    (c_cmd = "stop" /\ c_pc = "idle" /\ pointer = NoFile) =>
        (c_ret # "raise" /\ c_retrieved = TestPcap)

\* C11: copy_pcap gives True only if the local file then exists and is not
\* empty (a stop returns what its copy_pcap returned; the name is that of a
\* file, not the empty name left by a failed write of .current_capture).
C11_CopyNonEmpty ==
    (c_cmd = "stop" /\ c_pc = "idle" /\ c_ret = "True"
        /\ c_retrieved # EmptyName) =>
        /\ c_retrieved \in DOMAIN localFiles
        /\ localFiles[c_retrieved] = "data"

\* C12: start_tcpdump returns True or False and raises nothing, whatever
\* fails inside it, the write of .current_capture included.
C12_StartNeverRaises ==
    (c_cmd = "start" /\ c_pc = "idle") => c_ret \in {"True", "False"}

\* The (proxy, url) pairs of a list of results, and the pairs of the whole
\* matrix, profile by profile.
Pairs(res) == [i \in 1..Len(res) |-> <<res[i].proxy, res[i].url>>]

MatrixPairs ==
    [k \in 1..(Len(PROXIES) * Len(TEST_HOSTS)) |->
        <<PROXIES[((k - 1) \div Len(TEST_HOSTS)) + 1],
          TEST_HOSTS[((k - 1) % Len(TEST_HOSTS)) + 1]>>]

\* C13: the results are the pairs of the matrix in order, profile by profile
\* and host by host, one entry a pair, whatever the requests did: so far as
\* the run has come while it lasts, all of them once the loops are done and
\* in the report that is written.
C13_ProfileMajorOrder ==
    /\ Pairs(all_results \o results) =
           SubSeq(MatrixPairs, 1, Len(all_results) + Len(results))
    /\ m_pc \in {"save", "exit"} => Pairs(all_results) = MatrixPairs
    /\ m_report # <<>> => Pairs(m_report[1].results) = MatrixPairs

\* A run that wrote its report, with a request that raised, one that failed
\* and one that passed.
C13_Witness ==
    /\ m_pc = "done"
    /\ m_report # <<>>
    /\ \E i, j, k \in 1..Len(all_results) :
        /\ "error" \in DOMAIN all_results[i]
        /\ "return_code" \in DOMAIN all_results[j]
        /\ ~all_results[j].success
        /\ all_results[k].success

\* The entries of a list of results that passed.
Passed(res) == {i \in 1..Len(res) : res[i].success}

\* What the report says of the results, when there is one.
ReportCounts ==
    /\ m_report[1].total_tests = Len(all_results)
    /\ m_report[1].successful_tests = Cardinality(Passed(all_results))

\* C14 as stated: every run of the matrix leaves a report whose counts are
\* those of the results, and exits with 0 if every request passed and with
\* another status if one failed.
C14_ExitFollowsResults ==
    (m_pc = "done" /\ all_results # <<>>) =>
        /\ m_report # <<>>
        /\ ReportCounts
        /\ m_exit = 0 <=> Passed(all_results) = 1..Len(all_results)

\* C14 as the code has it: a report that is written has the counts of the
\* results, and the run then exits with 0 if every request passed and with 1
\* if one failed; a run whose report cannot be written exits with 1.
C14_ExitFollowsResultsAndSave ==
    (m_pc = "done" /\ all_results # <<>>) =>
        /\ m_exit \in {0, 1}
        /\ m_report # <<>> =>
              /\ ReportCounts
              /\ m_exit = 0 <=> Passed(all_results) = 1..Len(all_results)
        /\ m_report = <<>> => m_exit = 1

\* One request of the matrix failed: the report counts the others and the
\* exit status is 1.
C14_Witness ==
    /\ m_pc = "done"
    /\ m_report # <<>>
    /\ m_report[1].total_tests = Len(PROXIES) * Len(TEST_HOSTS)
    /\ m_report[1].successful_tests = m_report[1].total_tests - 1
    /\ m_exit = 1

\* The client of an entry ran to its end with exit status zero.
ClientExitedZero(r) == "return_code" \in DOMAIN r /\ r.return_code = 0

\* C15: an entry says success exactly when curl ended with exit status zero;
\* and whatever the health check of a profile met, every host of the profile
\* is requested: once the check is done the loop over the hosts runs, one
\* entry a host.
C15_SuccessIsExitZero ==
    /\ \A i \in 1..Len(all_results \o results) :
          (all_results \o results)[i].success
              <=> ClientExitedZero((all_results \o results)[i])
    /\ m_health # "none" => m_pc = "hosts" /\ Len(results) = m_h - 1

\* The health check of a profile raised; all its hosts were requested, one
\* passed and one did not.
C15_Witness ==
    /\ m_pc = "hosts"
    /\ m_health = "exception"
    /\ Len(results) = Len(TEST_HOSTS)
    /\ \E i, j \in 1..Len(results) :
          results[i].success /\ ~results[j].success

\* C16: install_ca returns True or False on every failure, that of the copy
\* into the trust directory included; it raises nothing.
C16_InstallNeverRaises ==
    i_ret \in {"none", "True", "False"}

\* C17: whoever finds CA_KEY or CA_CERT in place finds it whole: in every
\* state a file the program has written holds a whole key or certificate.
\* (The file that is no certificate and was there before the first run is
\* not of the program's making.)
C17_NoPartialArtifact ==
    /\ exists(caKey) => \E s \in 0..nextSerial : caKey = KeyPem(s)
    /\ (exists(caCert) /\ caCert # <<JUNK>>) =>
           \E s \in 0..nextSerial : caCert = CertPem(s)

\* C18: a run of the bootstrap script in manual mode that found CA_KEY or
\* CA_CERT missing, or CA_CERT no certificate, exits with status 1.
C18_ManualExitsOneOnFailure ==
    (b_pc = "exited" /\ ~b_auto /\ b_valid \in {"missing", "invalid"}) =>
        b_exit = 1

\* The capture process of the file that stop_tcpdump retrieves.
Capturing(name) == \E pr \in agentProcs : pr[1] = name

\* C19: a stop_tcpdump that finds the container running sends the signal,
\* waits, reads .current_capture and retrieves, in this order, so that while
\* it retrieves a file no tcpdump writes that file any more.
C19_InterruptedBeforeRetrieve ==
    (c_pc \in {"cp_check", "cp_copy", "cp_verify"} /\ c_running = "True") =>
        ~Capturing(c_cur)

\* C20: at most one tcpdump that the program launched runs in the container,
\* whatever starts and stops came before.
C20_AtMostOneCapture ==
    Cardinality(agentProcs) <= 1

\* C21: .current_capture is changed only by a start_tcpdump whose launch
\* succeeded, at its write of the file; a stop, a copy_pcap and a start that
\* returned False at a precondition or at the launch leave it as it was.  So
\* a stop whose copy fails launches nothing and leaves the name in place, and
\* whatever a stop retrieves is the name the file holds.
C21_PointerOnlyBySuccessfulLaunch ==
    [][/\ pointer' # pointer =>
              (c_cmd = "start" /\ c_pc = "st_persist" /\ c_ret = "none")
       /\ (c_cmd = "stop" /\ c_cmd' = "stop") =>
              agentProcs' \subseteq agentProcs
       /\ (c_cmd' = "stop" /\ c_retrieved' # NoName) =>
              c_retrieved' = IF pointer' = NoFile THEN TestPcap
                             ELSE strip_name(pointer')
      ]_vars

\* A stop after a session returned False, its copy having failed: the tcpdump
\* is ended, the file is not here, and the name of the session is still in
\* .current_capture.
C21_Witness ==
    /\ c_cmd = "stop" /\ c_pc = "idle" /\ c_ret = "False"
    /\ c_session # NoName
    /\ pointer = c_session
    /\ c_retrieved = c_session
    /\ c_session \notin DOMAIN localFiles
    /\ c_session \in DOMAIN agentFiles
    /\ agentFiles[c_session] = "data"
    /\ agentProcs = {}
    /\ cmds = 3

\* C22: Step 2 of a run copies CA_CERT into the trust directory, and the
\* refresh follows, only if Step 1.5 of that run found it a valid
\* certificate.
C22_InstallOnlyIfValid ==
    ca_installed => b_valid = "valid"

\* C23: when two processes have both returned from generate_ca, a key and a
\* certificate that they wrote are of one key pair.
C23_SamePairAfterBoth ==
    (\A p \in Procs : g_pc[p] = "done") =>
        \A s, t \in 1..nextSerial :
            (caKey = KeyPem(s) /\ caCert = CertPem(t)) => s = t

\* C24: wait_for_file returns True exactly when its test of existence finds
\* the file, late as that may be, and False only on a test that did not
\* find it: a step of the loop made while the file is there is the return
\* of True, and every return says whether the file was there.
C24_ResultIsLastCheck ==
    [][/\ (w_pc = "loop" /\ w_pc' = "done") =>
              /\ w_ret' \in {"True", "False"}
              /\ w_ret' = "True" <=> sibState[w_path] = "present"
       /\ (w_pc = "loop" /\ sibState[w_path] = "present"
              /\ (w_pc' # w_pc \/ w_sleeps' # w_sleeps)) =>
              w_ret' = "True"
      ]_vars

\* The file was found by a test made after max_wait had gone by.
C24_Witness ==
    /\ w_pc = "done"
    /\ w_ret = "True"
    /\ w_end - w_start > Sec(w_max)
    /\ sibState[w_path] = "present"

=============================================================================
